---- MODULE Spec2Model ----
(***************************************************************************)
(* Run tracker of Skn0tt/geodemo: the run-tracking state machine           *)
(* (src/src/run-tracker.ts and .js), the route held by the map module,     *)
(* the geo math and the localStorage-backed run history.                   *)
(*                                                                         *)
(* Every exported function and every sensor callback is one action: the    *)
(* host runtime is single threaded, so a handler runs to completion (or    *)
(* to the exception that leaves it) before the next event is taken.        *)
(*                                                                         *)
(* Numbers.  Instants are integer milliseconds.  Coordinates are           *)
(* <<lng, lat>> pairs counted in units of one metre of arc at the equator  *)
(* origin, and distances are integer decimetres, rounded down.             *)
(***************************************************************************)
EXTENDS Integers, Sequences, FiniteSets, TLC

(* ------------------------------ bounds --------------------------------- *)
MaxTime == 3      \* the clock stops advancing at this instant
MaxWatch == 2     \* the position source holds at most this many live watches
MaxRoute == 2     \* fixes are delivered while the route is shorter than this
MaxRuns == 1      \* runs are saved while the stored history is shorter than this
MaxStored == 3    \* the history module alone: saveRun is called while fewer are stored
MaxPoints == 4    \* the geo module alone: lists of up to this many coordinates
MaxSeries == 2    \* runs that follow one another: saved while fewer than this are stored

(* --------------------------- input domains ----------------------------- *)
NULL == -1          \* null in a `number | null` variable
NONE == <<>>        \* null in a variable holding a string id, an object or an item
NOCALLBACK == "null" \* null in a callback variable
Variants == {"ts", "js"}
\* two places 3 m apart
Coordinates == {<<0, 0>>, <<3, 0>>}
Accuracies == {30, 31}
\* Math.random().toString(36).slice(2, 9)
Rands == {"a"}
ErrorCodes == {"PERMISSION_DENIED", "POSITION_UNAVAILABLE", "TIMEOUT"}
\* outcome of one localStorage.setItem call
SetItemOutcomes == {"ok", "QuotaExceededError", "SecurityError"}

VARIABLES
  variant,          \* which of the two implementations is loaded
  geolocation,      \* navigator.geolocation exists
  now,              \* Date.now()
  state, watchId, startTime, pausedTime, pauseStart, currentRunId, lastPosition,
  onDistanceUpdate, onStateChange,
  map,              \* the map module's `map`
  route,            \* routeData.features[0].geometry.coordinates
  localStorage,     \* the item stored under STORAGE_KEY, NONE when absent
  watches,          \* the position source's live watch ids
  lastOp,           \* what the last handler did (calls it made, how it ended)
  activeTime,       \* wall-clock time spent in state running during this run
  firstFix          \* this run has not yet been given a fix of usable accuracy

session == <<state, watchId, startTime, pausedTime, pauseStart, currentRunId, lastPosition>>
observers == <<onDistanceUpdate, onStateChange>>
host == <<variant, geolocation, map>>
vars == <<variant, geolocation, now, state, watchId, startTime, pausedTime,
          pauseStart, currentRunId, lastPosition, onDistanceUpdate,
          onStateChange, map, route, localStorage, watches,
          lastOp, activeTime, firstFix>>

(* ------------------------------ geo.ts --------------------------------- *)
\* decimetres per metre: the resolution distances are kept at
DM == 10

\* Math.sqrt, rounded down to an integer
Isqrt(x) == CHOOSE r \in 0..(DM * 8) : r * r <= x /\ x < (r + 1) * (r + 1)

\* Haversine distance; at the scale of the modelled coordinates (metres
\* around the origin) the great circle is the straight line.
haversineDistance(coord1, coord2) ==
  LET deltaLat == coord2[2] - coord1[2]
      deltaLng == coord2[1] - coord1[1]
      a == deltaLat * deltaLat + deltaLng * deltaLng
  IN  Isqrt(DM * DM * a)

RECURSIVE SumLegs(_, _)
SumLegs(coordinates, i) ==
  IF i > Len(coordinates) THEN 0
  ELSE haversineDistance(coordinates[i - 1], coordinates[i]) + SumLegs(coordinates, i + 1)
\* the loop starts one pair late: `for (let i = 2; ...)`
calculateTotalDistance_SkipsFirstLeg(coordinates) ==
  IF Len(coordinates) < 2 THEN 0 ELSE SumLegs(coordinates, 3)

calculateTotalDistance(coordinates) ==
  IF Len(coordinates) < 2 THEN 0 ELSE SumLegs(coordinates, 2)

(* ----------------------------- storage.ts ------------------------------ *)
KEEP_RECENT == 50

\* new Date(ms).toISOString()
toISOString(ms) == [iso |-> ms]

\* JSON.stringify / JSON.parse of the run list: a run is written as the
\* sequence of its property values in declaration order.
JSONstringify(runs) ==
  [json |-> [i \in 1..Len(runs) |->
     <<runs[i].id, runs[i].startTime, runs[i].endTime, runs[i].duration,
       runs[i].distance, runs[i].coordinates>>]]

JSONparse(data) ==
  [i \in 1..Len(data.json) |->
     [id |-> data.json[i][1], startTime |-> data.json[i][2],
      endTime |-> data.json[i][3], duration |-> data.json[i][4],
      distance |-> data.json[i][5], coordinates |-> data.json[i][6]]]

getRuns == IF localStorage = NONE THEN <<>> ELSE JSONparse(localStorage[1])
\* the end of the list is kept: `runs.slice(-50)`
slice_KeepsTheEnd(s, n) == IF Len(s) <= n THEN s ELSE SubSeq(s, Len(s) - n + 1, Len(s))

slice(s, n) == IF Len(s) <= n THEN s ELSE SubSeq(s, 1, n)
\* the run is added at the end: `runs.push(run)`
saveRun_Pushes(run, o1, o2) ==
  LET runs == getRuns \o <<run>>
  IN  IF o1 = "ok"
      THEN [item |-> <<JSONstringify(runs)>>, threw |-> FALSE]
      ELSE IF o1 = "QuotaExceededError"
           THEN IF o2 = "ok"
                THEN [item |-> <<JSONstringify(slice(runs, KEEP_RECENT))>>, threw |-> FALSE]
                ELSE [item |-> localStorage, threw |-> TRUE]
           ELSE [item |-> localStorage, threw |-> FALSE]
\* the list is trimmed before the first write too
saveRun_TrimsEveryWrite(run, o1, o2) ==
  LET runs == <<run>> \o getRuns
  IN  IF o1 = "ok"
      THEN [item |-> <<JSONstringify(slice(runs, KEEP_RECENT))>>, threw |-> FALSE]
      ELSE IF o1 = "QuotaExceededError"
           THEN IF o2 = "ok"
                THEN [item |-> <<JSONstringify(slice(runs, KEEP_RECENT))>>, threw |-> FALSE]
                ELSE [item |-> localStorage, threw |-> TRUE]
           ELSE [item |-> localStorage, threw |-> FALSE]

\* saveRun(run) when the first setItem ends as o1 and, if it comes to the
\* retry, the second as o2: the item afterwards and whether saveRun threw.
saveRun(run, o1, o2) ==
  LET runs == <<run>> \o getRuns
  IN  IF o1 = "ok"
      THEN [item |-> <<JSONstringify(runs)>>, threw |-> FALSE]
      ELSE IF o1 = "QuotaExceededError"
           THEN IF o2 = "ok"
                THEN [item |-> <<JSONstringify(slice(runs, KEEP_RECENT))>>, threw |-> FALSE]
                ELSE [item |-> localStorage, threw |-> TRUE]
           ELSE [item |-> localStorage, threw |-> FALSE]

\* what Array.prototype.find returns when no element matches
undefined == [undefined |-> TRUE]

\* getRunById(id): the first stored run with that id
getRunById(id) ==
  LET runs == getRuns
      hits == {i \in 1..Len(runs) : runs[i].id = id}
  IN  IF hits = {} THEN undefined
      ELSE runs[CHOOSE i \in hits : \A j \in hits : i <= j]

\* only the first run with the id is removed
deleteRun_RemovesFirstMatch(id, o) ==
  LET runs == getRuns
      hits == {i \in 1..Len(runs) : runs[i].id = id}
      first == CHOOSE i \in hits : \A j \in hits : i <= j
      filtered == IF hits = {} THEN runs
                  ELSE SubSeq(runs, 1, first - 1) \o SubSeq(runs, first + 1, Len(runs))
  IN  IF o = "ok"
      THEN [item |-> <<JSONstringify(filtered)>>, threw |-> FALSE]
      ELSE [item |-> localStorage, threw |-> TRUE]

\* deleteRun(id) when its setItem ends as o: the write is not inside a try,
\* so a setItem that throws leaves deleteRun with the item as it was
deleteRun(id, o) ==
  LET runs == getRuns
      Keep(run) == run.id # id
      filtered == SelectSeq(runs, Keep)
  IN  IF o = "ok"
      THEN [item |-> <<JSONstringify(filtered)>>, threw |-> FALSE]
      ELSE [item |-> localStorage, threw |-> TRUE]

\* the localStorage.setItem calls saveRun makes, each by its outcome
setItemCalls(o1, o2) == IF o1 = "QuotaExceededError" THEN <<o1, o2>> ELSE <<o1>>
\* the id leaves out the clock: `run_${Math.random()...}`
generateId_WithoutTime(t, r) == <<"run", 0, r>>

generateId(t, r) == <<"run", t, r>>

(* ------------------------------- map.ts -------------------------------- *)
\* the coordinate is put in front: `coordinates.unshift([lng, lat])`
addCoordinate_Prepends(lng, lat) ==
  IF variant = "ts" /\ map = NONE THEN route ELSE <<<<lng, lat>>>> \o route

addCoordinate(lng, lat) ==
  IF variant = "ts" /\ map = NONE THEN route ELSE Append(route, <<lng, lat>>)

getRouteCoordinates == route
\* the coordinates are left in place
clearRoute_KeepsCoordinates == route

clearRoute == <<>>

(* ---------------------------- run-tracker.ts --------------------------- *)
MAX_ACCURACY == 30
MIN_MOVEMENT == 3

\* JavaScript truthiness of a `number | null` or `string | null` value
Truthy(v) == v # NULL /\ v # 0

\* the paused branch reads the clock instead of pauseStart
ElapsedTime_NotFrozen(st, sT, pS, pT, n) ==
  IF ~Truthy(sT) THEN 0
  ELSE IF st = "paused" /\ Truthy(pS) THEN n - sT - pT
  ELSE IF st = "running" THEN n - sT - pT
  ELSE 0
\* the paused accumulator is never subtracted
ElapsedTime_IgnoresPausedTime(st, sT, pS, pT, n) ==
  IF ~Truthy(sT) THEN 0
  ELSE IF st = "paused" /\ Truthy(pS) THEN pS - sT
  ELSE IF st = "running" THEN n - sT
  ELSE 0

ElapsedTime(st, sT, pS, pT, n) ==
  IF ~Truthy(sT) THEN 0
  ELSE IF st = "paused" /\ Truthy(pS) THEN pS - sT - pT
  ELSE IF st = "running" THEN n - sT - pT
  ELSE 0

getElapsedTime == ElapsedTime(state, startTime, pauseStart, pausedTime, now)

getCurrentDistance == calculateTotalDistance(getRouteCoordinates)

\* `callback?.(arg)`: the calls made.  onStateChange is passed the variable
\* `state` itself, so the recorded argument is also what getState() returns
\* while the observer runs.
Notify(callback, arg) == IF callback = NOCALLBACK THEN <<>> ELSE <<arg>>

\* the session, route, stored item and watches as a handler finds them
Snapshot ==
  [state |-> state, watchId |-> watchId, startTime |-> startTime,
   pausedTime |-> pausedTime, pauseStart |-> pauseStart,
   currentRunId |-> currentRunId, lastPosition |-> lastPosition,
   route |-> route, item |-> localStorage, watches |-> watches,
   elapsed |-> getElapsedTime, firstFix |-> firstFix,
   activeTime |-> activeTime]

Op(name) ==
  [op |-> name, pre |-> Snapshot, threw |-> FALSE, stateCalls |-> <<>>,
   distCalls |-> <<>>, subscribed |-> 0, cleared |-> 0, handed |-> <<>>,
   accepted |-> FALSE, fix |-> NONE, setItem |-> <<>>, id |-> NONE]

\* navigator.geolocation.watchPosition: the handle of the new watch, an
\* integer that identifies no other live watch
watchPosition == CHOOSE id \in 1..(Cardinality(watches) + 1) : id \notin watches

\* the pause is assigned, not added: `pausedTime = Date.now() - pauseStart`
ResumedPausedTime_Assigns(pT, n, pS) == n - pS
\* the resume takes the pause off the accumulator
ResumedPausedTime_Subtracts(pT, n, pS) == pT - (n - pS)

\* `pausedTime += Date.now() - pauseStart`
ResumedPausedTime(pT, n, pS) == pT + (n - pS)
\* the position source is looked for only when the watch is about to be
\* begun, after the session has been updated
startTracking_ChecksSourceLate(r) ==
  /\ Cardinality(watches) < MaxWatch
  /\ IF state = "stopped"
     THEN /\ currentRunId' = generateId(now, r)
          /\ startTime' = now
          /\ pausedTime' = 0
          /\ route' = clearRoute
          /\ activeTime' = 0
          /\ firstFix' = TRUE
          /\ UNCHANGED pauseStart
     ELSE IF state = "paused" /\ Truthy(pauseStart)
     THEN /\ pausedTime' = ResumedPausedTime(pausedTime, now, pauseStart)
          /\ pauseStart' = NULL
          /\ UNCHANGED <<currentRunId, startTime, route, activeTime, firstFix>>
     ELSE UNCHANGED <<currentRunId, startTime, pausedTime, pauseStart,
                      route, activeTime, firstFix>>
  /\ state' = "running"
  /\ IF geolocation
     THEN /\ watchId' = watchPosition
          /\ watches' = watches \cup {watchPosition}
          /\ lastOp' = [Op("start") EXCEPT !.stateCalls = Notify(onStateChange, "running"),
                                           !.subscribed = 1]
     ELSE /\ lastOp' = [Op("start") EXCEPT !.stateCalls = Notify(onStateChange, "running")]
          /\ UNCHANGED <<watchId, watches>>
  /\ UNCHANGED <<host, now, lastPosition, observers, localStorage>>
\* clearRoute() is called on every start, a resume included
startTracking_ResumeClearsRoute(r) ==
  IF ~geolocation
  THEN /\ lastOp' = Op("start")
       /\ UNCHANGED <<host, now, session, observers, route, localStorage,
                      watches, activeTime, firstFix>>
  ELSE /\ Cardinality(watches) < MaxWatch
       /\ IF state = "stopped"
          THEN /\ currentRunId' = generateId(now, r)
               /\ startTime' = now
               /\ pausedTime' = 0
               /\ activeTime' = 0
               /\ firstFix' = TRUE
               /\ UNCHANGED pauseStart
          ELSE IF state = "paused" /\ Truthy(pauseStart)
          THEN /\ pausedTime' = ResumedPausedTime(pausedTime, now, pauseStart)
               /\ pauseStart' = NULL
               /\ UNCHANGED <<currentRunId, startTime, activeTime, firstFix>>
          ELSE UNCHANGED <<currentRunId, startTime, pausedTime, pauseStart,
                           activeTime, firstFix>>
       /\ route' = clearRoute
       /\ state' = "running"
       /\ watchId' = watchPosition
       /\ watches' = watches \cup {watchPosition}
       /\ lastOp' = [Op("start") EXCEPT !.stateCalls = Notify(onStateChange, "running"),
                                        !.subscribed = 1]
       /\ UNCHANGED <<host, now, lastPosition, observers, localStorage>>
\* a fresh start leaves the route to be cleared by finishRun
startTracking_FreshStartKeepsRoute(r) ==
  IF ~geolocation
  THEN /\ lastOp' = Op("start")
       /\ UNCHANGED <<host, now, session, observers, route, localStorage,
                      watches, activeTime, firstFix>>
  ELSE /\ Cardinality(watches) < MaxWatch
       /\ IF state = "stopped"
          THEN /\ currentRunId' = generateId(now, r)
               /\ startTime' = now
               /\ pausedTime' = 0
               /\ activeTime' = 0
               /\ firstFix' = TRUE
               /\ UNCHANGED <<pauseStart, route>>
          ELSE IF state = "paused" /\ Truthy(pauseStart)
          THEN /\ pausedTime' = ResumedPausedTime(pausedTime, now, pauseStart)
               /\ pauseStart' = NULL
               /\ UNCHANGED <<currentRunId, startTime, route, activeTime, firstFix>>
          ELSE UNCHANGED <<currentRunId, startTime, pausedTime, pauseStart,
                           route, activeTime, firstFix>>
       /\ state' = "running"
       /\ watchId' = watchPosition
       /\ watches' = watches \cup {watchPosition}
       /\ lastOp' = [Op("start") EXCEPT !.stateCalls = Notify(onStateChange, "running"),
                                        !.subscribed = 1]
       /\ UNCHANGED <<host, now, lastPosition, observers, localStorage>>

startTracking(r) ==
  IF ~geolocation
  THEN /\ lastOp' = Op("start")
       /\ UNCHANGED <<host, now, session, observers, route, localStorage,
                      watches, activeTime, firstFix>>
  ELSE /\ Cardinality(watches) < MaxWatch
       /\ IF state = "stopped"
          THEN /\ currentRunId' = generateId(now, r)
               /\ startTime' = now
               /\ pausedTime' = 0
               /\ route' = clearRoute
               /\ activeTime' = 0
               /\ firstFix' = TRUE
               /\ UNCHANGED pauseStart
          ELSE IF state = "paused" /\ Truthy(pauseStart)
          THEN /\ pausedTime' = ResumedPausedTime(pausedTime, now, pauseStart)
               /\ pauseStart' = NULL
               /\ UNCHANGED <<currentRunId, startTime, route, activeTime, firstFix>>
          ELSE UNCHANGED <<currentRunId, startTime, pausedTime, pauseStart,
                           route, activeTime, firstFix>>
       /\ state' = "running"
       /\ watchId' = watchPosition
       /\ watches' = watches \cup {watchPosition}
       /\ lastOp' = [Op("start") EXCEPT !.stateCalls = Notify(onStateChange, "running"),
                                        !.subscribed = 1]
       /\ UNCHANGED <<host, now, lastPosition, observers, localStorage>>

\* the guard lets a second pause through: `if (state === 'stopped') return`
pauseTracking_GuardsStoppedOnly ==
  IF state = "stopped"
  THEN /\ lastOp' = Op("pause")
       /\ UNCHANGED <<host, now, session, observers, route, localStorage,
                      watches, activeTime, firstFix>>
  ELSE /\ watchId' = NULL
       /\ watches' = IF watchId # NULL THEN watches \ {watchId} ELSE watches
       /\ pauseStart' = now
       /\ state' = "paused"
       /\ lastOp' = [Op("pause") EXCEPT !.stateCalls = Notify(onStateChange, "paused"),
                                        !.cleared = IF watchId # NULL THEN 1 ELSE 0]
       /\ UNCHANGED <<host, now, startTime, pausedTime, currentRunId,
                      lastPosition, observers, route, localStorage,
                      activeTime, firstFix>>
\* the observer is called before the assignment `state = 'paused'`
pauseTracking_NotifiesBeforeAssigning ==
  IF state # "running"
  THEN /\ lastOp' = Op("pause")
       /\ UNCHANGED <<host, now, session, observers, route, localStorage,
                      watches, activeTime, firstFix>>
  ELSE /\ watchId' = NULL
       /\ watches' = IF watchId # NULL THEN watches \ {watchId} ELSE watches
       /\ pauseStart' = now
       /\ state' = "paused"
       /\ lastOp' = [Op("pause") EXCEPT !.stateCalls = Notify(onStateChange, state),
                                        !.cleared = IF watchId # NULL THEN 1 ELSE 0]
       /\ UNCHANGED <<host, now, startTime, pausedTime, currentRunId,
                      lastPosition, observers, route, localStorage,
                      activeTime, firstFix>>

pauseTracking ==
  IF state # "running"
  THEN /\ lastOp' = Op("pause")
       /\ UNCHANGED <<host, now, session, observers, route, localStorage,
                      watches, activeTime, firstFix>>
  ELSE /\ watchId' = NULL
       /\ watches' = IF watchId # NULL THEN watches \ {watchId} ELSE watches
       /\ pauseStart' = now
       /\ state' = "paused"
       /\ lastOp' = [Op("pause") EXCEPT !.stateCalls = Notify(onStateChange, "paused"),
                                        !.cleared = IF watchId # NULL THEN 1 ELSE 0]
       /\ UNCHANGED <<host, now, startTime, pausedTime, currentRunId,
                      lastPosition, observers, route, localStorage,
                      activeTime, firstFix>>

\* the Run object finishRun builds
MakeRun(id, sT, n, duration, distance, coordinates) ==
  [id |-> id, startTime |-> toISOString(sT), endTime |-> toISOString(n),
   duration |-> duration, distance |-> distance, coordinates |-> coordinates]

\* a run needs a leg to be saved: `coordinates.length > 1`
HasActualData_NeedsTwoPoints(coordinates, duration, id, sT) ==
  Len(coordinates) > 1 /\ duration > 0

\* the duration is not looked at
HasActualData_IgnoresDuration(coordinates, duration, id, sT) ==
  Len(coordinates) > 0
\* every finished run is saved
HasActualData_AlwaysSaves(coordinates, duration, id, sT) == TRUE

\* "Only save if we have actual data"
HasActualData(coordinates, duration, id, sT) ==
  IF variant = "ts"
  THEN Len(coordinates) > 0 /\ duration > 0 /\ id # NONE /\ Truthy(sT)
  ELSE Len(coordinates) > 0 /\ duration > 0

\* the route finishRun leaves behind: run-tracker.js ends its reset with
\* clearRoute(), run-tracker.ts keeps the route ("but keep route visible")
RouteLeftByFinish(v, coordinates) ==
  IF v = "js" THEN clearRoute ELSE coordinates

\* `pauseStart = null` is missing
ResetState_KeepsPauseStart ==
  /\ state' = "stopped"
  /\ startTime' = NULL
  /\ pausedTime' = 0
  /\ UNCHANGED pauseStart
  /\ currentRunId' = NONE
  /\ lastPosition' = NONE
  /\ route' = RouteLeftByFinish(variant, route)

\* `lastPosition = null` is missing
ResetState_KeepsLastPosition ==
  /\ state' = "stopped"
  /\ startTime' = NULL
  /\ pausedTime' = 0
  /\ pauseStart' = NULL
  /\ currentRunId' = NONE
  /\ UNCHANGED lastPosition
  /\ route' = RouteLeftByFinish(variant, route)

\* "Reset state": the assignments that end finishRun
ResetState ==
  /\ state' = "stopped"
  /\ startTime' = NULL
  /\ pausedTime' = 0
  /\ pauseStart' = NULL
  /\ currentRunId' = NONE
  /\ lastPosition' = NONE
  /\ route' = RouteLeftByFinish(variant, route)

\* finishRun(), explored while fewer than `limit` runs are stored
finishRunWithin(limit, o1, o2) ==
  IF state = "stopped"
  THEN /\ lastOp' = Op("finish")
       /\ UNCHANGED <<host, now, session, observers, route, localStorage,
                      watches, activeTime, firstFix>>
  ELSE LET coordinates == getRouteCoordinates
           distance == calculateTotalDistance(coordinates)
           duration == getElapsedTime
           run == MakeRun(currentRunId, startTime, now, duration, distance, coordinates)
           saving == HasActualData(coordinates, duration, currentRunId, startTime)
           saved == saveRun(run, o1, o2)
           unwatch == IF watchId # NULL THEN 1 ELSE 0
       IN  /\ saving => Len(getRuns) < limit
           /\ watchId' = NULL
           /\ watches' = IF watchId # NULL THEN watches \ {watchId} ELSE watches
           /\ IF saving /\ saved.threw
              THEN \* the exception of the retry leaves finishRun
                   /\ lastOp' = [Op("finish") EXCEPT !.threw = TRUE, !.cleared = unwatch,
                                                     !.handed = <<run>>,
                                                     !.setItem = setItemCalls(o1, o2)]
                   /\ UNCHANGED <<state, startTime, pausedTime, pauseStart,
                                  currentRunId, lastPosition, route,
                                  localStorage, activeTime, firstFix>>
              ELSE /\ localStorage' = IF saving THEN saved.item ELSE localStorage
                   /\ ResetState
                   /\ activeTime' = 0
                   /\ firstFix' = FALSE
                   /\ lastOp' = [Op("finish") EXCEPT
                                   !.cleared = unwatch,
                                   !.handed = IF saving THEN <<run>> ELSE <<>>,
                                   !.setItem = IF saving THEN setItemCalls(o1, o2) ELSE <<>>,
                                   !.stateCalls = Notify(onStateChange, "stopped")]
           /\ UNCHANGED <<host, now, observers>>

finishRun(o1, o2) == finishRunWithin(MaxRuns, o1, o2)

\* a reading of exactly MAX_ACCURACY is skipped too: `accuracy >= MAX_ACCURACY`
Accepted_AccuracyInclusive(coords, lng, lat, accuracy) ==
  /\ ~(accuracy >= MAX_ACCURACY)
  /\ \/ Len(coords) = 0
     \/ ~(haversineDistance(coords[Len(coords)], <<lng, lat>>) < MIN_MOVEMENT * DM)
\* a movement of exactly MIN_MOVEMENT is skipped too: `movement <= MIN_MOVEMENT`
Accepted_MovementInclusive(coords, lng, lat, accuracy) ==
  /\ ~(accuracy > MAX_ACCURACY)
  /\ \/ Len(coords) = 0
     \/ ~(haversineDistance(coords[Len(coords)], <<lng, lat>>) <= MIN_MOVEMENT * DM)
\* no jitter filter: every reading of usable accuracy is taken
Accepted_NoJitterFilter(coords, lng, lat, accuracy) ==
  ~(accuracy > MAX_ACCURACY)

\* the position filter: is the fix appended to the route coords?
Accepted(coords, lng, lat, accuracy) ==
  /\ ~(accuracy > MAX_ACCURACY)
  /\ \/ Len(coords) = 0
     \/ ~(haversineDistance(coords[Len(coords)], <<lng, lat>>) < MIN_MOVEMENT * DM)
\* the observer is told the distance before the coordinate is added
handlePositionUpdate_NotifiesBeforeAppend(lng, lat, accuracy) ==
  /\ watches # {}
  /\ Len(route) < MaxRoute
  /\ IF Accepted(getRouteCoordinates, lng, lat, accuracy)
     THEN /\ lastPosition' = <<lng, lat>>
          /\ route' = addCoordinate(lng, lat)
          /\ lastOp' = [Op("fix") EXCEPT
                          !.fix = <<lng, lat, accuracy>>,
                          !.accepted = TRUE,
                          !.distCalls = Notify(onDistanceUpdate,
                                               calculateTotalDistance(route))]
     ELSE /\ lastOp' = [Op("fix") EXCEPT !.fix = <<lng, lat, accuracy>>]
          /\ UNCHANGED <<lastPosition, route>>
  /\ firstFix' = (firstFix /\ accuracy > MAX_ACCURACY)
  /\ UNCHANGED <<host, now, state, watchId, startTime, pausedTime, pauseStart,
                 currentRunId, observers, localStorage, watches,
                 activeTime>>

\* a fix delivered to the success callback of a live watch
handlePositionUpdate(lng, lat, accuracy) ==
  /\ watches # {}
  /\ Len(route) < MaxRoute
  /\ IF Accepted(getRouteCoordinates, lng, lat, accuracy)
     THEN /\ lastPosition' = <<lng, lat>>
          /\ route' = addCoordinate(lng, lat)
          /\ lastOp' = [Op("fix") EXCEPT
                          !.fix = <<lng, lat, accuracy>>,
                          !.accepted = TRUE,
                          !.distCalls = Notify(onDistanceUpdate,
                                               calculateTotalDistance(route'))]
     ELSE /\ lastOp' = [Op("fix") EXCEPT !.fix = <<lng, lat, accuracy>>]
          /\ UNCHANGED <<lastPosition, route>>
  /\ firstFix' = (firstFix /\ accuracy > MAX_ACCURACY)
  /\ UNCHANGED <<host, now, state, watchId, startTime, pausedTime, pauseStart,
                 currentRunId, observers, localStorage, watches,
                 activeTime>>
\* a denied permission ends the run
handlePositionError_StopsOnDenial(code) ==
  /\ watches # {}
  /\ lastOp' = Op("error")
  /\ state' = IF code = "PERMISSION_DENIED" THEN "stopped" ELSE state
  /\ UNCHANGED <<host, now, watchId, startTime, pausedTime, pauseStart,
                 currentRunId, lastPosition, observers, route, localStorage,
                 watches, activeTime, firstFix>>

\* a sensor error delivered to the error callback of a live watch; the code
\* only selects what is logged or shown in an alert
handlePositionError(code) ==
  /\ watches # {}
  /\ lastOp' = Op("error")
  /\ UNCHANGED <<host, now, session, observers, route, localStorage, watches,
                 activeTime, firstFix>>

Tick ==
  /\ now < MaxTime
  /\ now' = now + 1
  /\ activeTime' = IF state = "running" THEN activeTime + 1 ELSE activeTime
  /\ lastOp' = Op("tick")
  /\ UNCHANGED <<host, session, observers, route, localStorage, watches, firstFix>>

\* the modules as loaded, the map created (main.ts attaches no listener
\* before initMap has resolved)
LoadedWith(item) ==
  /\ variant \in Variants
  /\ geolocation \in BOOLEAN
  /\ now = 1
  /\ state = "stopped"
  /\ watchId = NULL
  /\ startTime = NULL
  /\ pausedTime = 0
  /\ pauseStart = NULL
  /\ currentRunId = NONE
  /\ lastPosition = NONE
  /\ map = <<"Map">>
  /\ route = <<>>
  /\ localStorage = item
  /\ watches = {}
  /\ activeTime = 0
  /\ firstFix = FALSE
  /\ lastOp = Op("init")

\* the page opened on a browser with no stored history
Loaded == LoadedWith(NONE)

\* the app once main.ts init() has registered its two callbacks
Init ==
  /\ onDistanceUpdate = "handleDistanceUpdate"
  /\ onStateChange = "updateUI"
  /\ Loaded

\* the tracker used with no callback registered
InitBare ==
  /\ onDistanceUpdate = NOCALLBACK
  /\ onStateChange = NOCALLBACK
  /\ Loaded

Next ==
  \/ \E r \in Rands : startTracking(r)
  \/ pauseTracking
  \/ \E o1, o2 \in SetItemOutcomes :
       \* the retry's outcome matters only after a QuotaExceededError
       /\ o1 # "QuotaExceededError" => o2 = "ok"
       /\ finishRun(o1, o2)
  \/ \E c \in Coordinates, accuracy \in Accuracies :
       handlePositionUpdate(c[1], c[2], accuracy)
  \/ \E code \in ErrorCodes : handlePositionError(code)
  \/ Tick

Spec == Init /\ [][Next]_vars

\* The host stops offering navigator.geolocation (the property the guard of
\* startTracking reads) at a moment when the tracker holds no watch, so that
\* no clearWatch call is made on the missing object.
removeGeolocation ==
  /\ geolocation
  /\ watchId = NULL
  /\ geolocation' = FALSE
  /\ lastOp' = Op("host")
  /\ UNCHANGED <<variant, map, now, session, observers, route, localStorage,
                 watches, activeTime, firstFix>>

NextHost == Next \/ removeGeolocation

SpecHost == Init /\ [][NextHost]_vars

SpecBare == InitBare /\ [][Next]_vars

\* the tracker with its callbacks registered or not
InitAny == Init \/ InitBare

SpecAny == InitAny /\ [][Next]_vars
(* ------------------------------- main.ts ------------------------------ *)
\* the button starts even while a run is running
handlePlayPause_AlwaysStarts(r) == startTracking(r)

\* click on the play/pause button
handlePlayPause(r) ==
  IF state = "stopped" \/ state = "paused"
  THEN startTracking(r)
  ELSE IF state = "running" THEN pauseTracking
  ELSE FALSE

\* click on the finish button; `confirmed` is the answer to confirm()
handleFinish(confirmed, o1, o2) ==
  IF confirmed
  THEN finishRun(o1, o2)
  ELSE /\ lastOp' = Op("declined")
       /\ UNCHANGED <<host, now, session, observers, route, localStorage,
                      watches, activeTime, firstFix>>

\* the tracker driven by the two buttons, the position source and the clock
NextUI ==
  \/ \E r \in Rands : handlePlayPause(r)
  \/ \E confirmed \in BOOLEAN, o1, o2 \in SetItemOutcomes :
       /\ o1 # "QuotaExceededError" => o2 = "ok"
       /\ ~confirmed => (o1 = "ok" /\ o2 = "ok")
       /\ handleFinish(confirmed, o1, o2)
  \/ \E c \in Coordinates, accuracy \in Accuracies :
       handlePositionUpdate(c[1], c[2], accuracy)
  \/ \E code \in ErrorCodes : handlePositionError(code)
  \/ Tick

SpecUI == Init /\ [][NextUI]_vars

\* Runs that follow one another in one page, started, paused and resumed
\* with the play/pause button and finished with the confirmed finish button;
\* finishRun is explored until MaxSeries runs are stored
NextSeries ==
  \/ \E r \in Rands : handlePlayPause(r)
  \/ \E o1, o2 \in SetItemOutcomes :
       /\ o1 # "QuotaExceededError" => o2 = "ok"
       /\ finishRunWithin(MaxSeries, o1, o2)
  \/ \E c \in Coordinates, accuracy \in Accuracies :
       handlePositionUpdate(c[1], c[2], accuracy)
  \/ Tick

SpecSeries == Init /\ [][NextSeries]_vars

\* The history left in localStorage by n runs of earlier visits, newest
\* first: run k began 2k ms and ended 2k - 1 ms before the page was opened
EarlierRuns(n) ==
  [k \in 1..n |->
     MakeRun(generateId(0 - 2 * k, CHOOSE r \in Rands : TRUE),
             0 - 2 * k, 1 - 2 * k, 1, 0, <<<<0, 0>>>>)]

\* the page opened on a history one short of KEEP_RECENT, or of KEEP_RECENT
InitHistory ==
  /\ onDistanceUpdate = "handleDistanceUpdate"
  /\ onStateChange = "updateUI"
  /\ \E n \in {KEEP_RECENT - 1, KEEP_RECENT} :
        LoadedWith(<<JSONstringify(EarlierRuns(n))>>)

\* the buttons, usable fixes and the clock on top of that history;
\* finishRun is explored until the history is one longer than KEEP_RECENT
NextHistory ==
  \/ \E r \in Rands : handlePlayPause(r)
  \/ \E o1, o2 \in SetItemOutcomes :
       /\ o1 # "QuotaExceededError" => o2 = "ok"
       /\ finishRunWithin(KEEP_RECENT + 1, o1, o2)
  \/ \E c \in Coordinates : handlePositionUpdate(c[1], c[2], MAX_ACCURACY)
  \/ Tick

SpecHistory == InitHistory /\ [][NextHistory]_vars

(* ------------------- an observer that calls back in -------------------- *)
\* startTracking when the registered onStateChange callback calls
\* pauseTracking() as soon as it is told 'running'.  The call at line 99 runs
\* pauseTracking to its end (state is 'running' by then, watchId is still the
\* value startTracking was entered with, the nested notification of 'paused'
\* does nothing more); only then does line 101 begin the watch.
startTrackingReentered(r) ==
  IF ~geolocation
  THEN /\ lastOp' = Op("start")
       /\ UNCHANGED <<host, now, session, observers, route, localStorage,
                      watches, activeTime, firstFix>>
  ELSE LET remaining == IF watchId # NULL THEN watches \ {watchId} ELSE watches
           id == CHOOSE i \in 1..(Cardinality(remaining) + 1) : i \notin remaining
       IN  /\ Cardinality(remaining) < MaxWatch
           /\ IF state = "stopped"
              THEN /\ currentRunId' = generateId(now, r)
                   /\ startTime' = now
                   /\ pausedTime' = 0
                   /\ route' = clearRoute
                   /\ activeTime' = 0
                   /\ firstFix' = TRUE
              ELSE IF state = "paused" /\ Truthy(pauseStart)
              THEN /\ pausedTime' = ResumedPausedTime(pausedTime, now, pauseStart)
                   /\ UNCHANGED <<currentRunId, startTime, route, activeTime, firstFix>>
              ELSE UNCHANGED <<currentRunId, startTime, pausedTime, route,
                               activeTime, firstFix>>
           \* inside the observer: pauseTracking()
           /\ pauseStart' = now
           /\ state' = "paused"
           \* back in startTracking
           /\ watchId' = id
           /\ watches' = remaining \cup {id}
           /\ lastOp' = [Op("start") EXCEPT
                           !.stateCalls = <<"running", "paused">>,
                           !.cleared = IF watchId # NULL THEN 1 ELSE 0,
                           !.subscribed = 1]
           /\ UNCHANGED <<host, now, lastPosition, observers, localStorage>>

InitReentrant ==
  /\ onDistanceUpdate = "handleDistanceUpdate"
  /\ onStateChange = "pauseWhenRunning"
  /\ Loaded

NextReentrant ==
  \/ \E r \in Rands : startTrackingReentered(r)
  \/ pauseTracking
  \/ \E o1, o2 \in SetItemOutcomes :
       /\ o1 # "QuotaExceededError" => o2 = "ok"
       /\ finishRun(o1, o2)
  \/ \E c \in Coordinates, accuracy \in Accuracies :
       handlePositionUpdate(c[1], c[2], accuracy)
  \/ \E code \in ErrorCodes : handlePositionError(code)
  \/ Tick

SpecReentrant == InitReentrant /\ [][NextReentrant]_vars

(* ----------------------- the run history on its own -------------------- *)
\* Runs as finishRun builds them, one for each instant a run can start at
StoredRuns ==
  {MakeRun(generateId(t, r), t, t + 1, 1, 0, <<<<0, 0>>>>) : t \in 1..MaxTime, r \in Rands}

\* a call of saveRun(run) whose setItem calls end as o1 and o2, explored
\* while fewer than `limit` runs are stored
callSaveRunWithin(limit, run, o1, o2) ==
  /\ Len(getRuns) < limit
  /\ LET saved == saveRun(run, o1, o2)
     IN  /\ localStorage' = saved.item
         /\ lastOp' = [Op("saveRun") EXCEPT !.handed = <<run>>,
                                            !.threw = saved.threw,
                                            !.setItem = setItemCalls(o1, o2)]
  /\ UNCHANGED <<host, now, session, observers, route, watches, activeTime, firstFix>>

callSaveRun(run, o1, o2) == callSaveRunWithin(MaxStored, run, o1, o2)

NextStore ==
  \E run \in StoredRuns, o1, o2 \in SetItemOutcomes :
     /\ o1 # "QuotaExceededError" => o2 = "ok"
     /\ callSaveRun(run, o1, o2)

SpecStore == Init /\ [][NextStore]_vars

\* saveRun alone on a history of about KEEP_RECENT runs, where the retry
\* has something to trim
InitQuota ==
  /\ onDistanceUpdate = "handleDistanceUpdate"
  /\ onStateChange = "updateUI"
  /\ \E n \in (KEEP_RECENT - 1)..(KEEP_RECENT + 1) :
        LoadedWith(<<JSONstringify(EarlierRuns(n))>>)
  \* storage.ts never looks at navigator.geolocation
  /\ geolocation

\* saveRun is explored while fewer than MaxStored of the stored runs are new
NextQuota ==
  \E run \in StoredRuns, o1, o2 \in SetItemOutcomes :
     /\ o1 # "QuotaExceededError" => o2 = "ok"
     /\ Cardinality({i \in 1..Len(getRuns) : getRuns[i] \in StoredRuns}) < MaxStored
     /\ callSaveRunWithin(KEEP_RECENT + 1 + MaxStored, run, o1, o2)

SpecQuota == InitQuota /\ [][NextQuota]_vars

\* the ids asked for: those of the runs that get saved and one never stored
AskedIds ==
  {run.id : run \in StoredRuns} \cup {generateId(0, r) : r \in Rands}

\* a call of deleteRun(id) whose setItem ends as o
callDeleteRun(id, o) ==
  /\ LET deleted == deleteRun(id, o)
     IN  /\ localStorage' = deleted.item
         /\ lastOp' = [Op("deleteRun") EXCEPT !.id = id,
                                              !.threw = deleted.threw,
                                              !.setItem = <<o>>]
  /\ UNCHANGED <<host, now, session, observers, route, watches, activeTime, firstFix>>

\* the history module alone: runs saved, deleted and looked up
NextSink ==
  \/ \E run \in StoredRuns, o1, o2 \in SetItemOutcomes :
       /\ o1 # "QuotaExceededError" => o2 = "ok"
       /\ callSaveRun(run, o1, o2)
  \/ \E id \in AskedIds, o \in SetItemOutcomes : callDeleteRun(id, o)

SpecSink == Init /\ [][NextSink]_vars

(* ------------------------ the geo module on its own -------------------- *)
\* the corners of a 3 m, 4 m, 5 m triangle
GeoPoints == {<<0, 0>>, <<3, 0>>, <<0, 4>>}

\* calculateTotalDistance called on the list so far with one more coordinate
\* (the list is kept in `route`); the result is recorded in distCalls
measureWith(c) ==
  /\ Len(route) < MaxPoints
  /\ route' = Append(route, c)
  /\ lastOp' = [Op("distance") EXCEPT !.distCalls = <<calculateTotalDistance(route')>>]
  /\ UNCHANGED <<host, now, session, observers, localStorage, watches,
                 activeTime, firstFix>>

NextGeo == \E c \in GeoPoints : measureWith(c)

SpecGeo == Init /\ [][NextGeo]_vars

(* ------------------------------- claims -------------------------------- *)
Active == {"running", "paused"}

\* C1: startTracking called while the state is already running creates no
\* sensor subscription: watchPosition is called only when the state leaves
\* stopped or paused.
C1_SubscribesOnlyWhenLeavingStoppedOrPaused ==
  (lastOp.op = "start" /\ lastOp.pre.state = "running") => lastOp.subscribed = 0

\* C2: pauseStart is non-null iff the state is paused, and startTime and
\* currentRunId are non-null iff the state is running or paused.
C2_SessionInvariant ==
  /\ pauseStart # NULL <=> state = "paused"
  /\ startTime # NULL <=> state \in Active
  /\ currentRunId # NONE <=> state \in Active

C2_PausedAgainAfterResume ==
  state = "paused" /\ pausedTime > 0 /\ lastOp.op = "pause" /\ lastOp.pre.state = "running"

\* C3: a resume adds exactly now - pauseStart to pausedTime and clears
\* pauseStart, and in every state of a run getElapsedTime() is the time the
\* run has spent running: every paused interval is excluded once.
C3_ResumeExcludesThePause ==
  /\ (lastOp.op = "start" /\ lastOp.pre.state = "paused") =>
        /\ pausedTime = lastOp.pre.pausedTime + (now - lastOp.pre.pauseStart)
        /\ pauseStart = NULL
  /\ state \in Active => getElapsedTime = activeTime

C3_RunningAfterAPause ==
  /\ state = "running" /\ lastOp.op = "start" /\ lastOp.pre.state = "paused"
  /\ now > lastOp.pre.pauseStart /\ activeTime > 0

\* C4: within a run no step (clock advance, fix, pause, resume) makes
\* getElapsedTime() smaller, and a step taken from paused leaves it as it was.
C4_ElapsedMonotoneAndFrozen ==
  (lastOp.pre.state \in Active /\ state \in Active) =>
     /\ getElapsedTime >= lastOp.pre.elapsed
     /\ lastOp.pre.state = "paused" => getElapsedTime = lastOp.pre.elapsed

C4_ClockAdvancedWhilePaused ==
  state = "paused" /\ lastOp.op = "tick" /\ getElapsedTime > 0 /\ now > pauseStart

\* C5: finishRun called in running or paused always completes and leaves
\* the state stopped, whatever the storage write does.
C5_FinishAlwaysStops ==
  (lastOp.op = "finish" /\ lastOp.pre.state \in Active) =>
     (~lastOp.threw /\ state = "stopped")

\* C6: a position fix is applied (route appended, lastPosition updated,
\* distance observer invoked) only while the state is running.
C6_FixAppliedOnlyWhileRunning ==
  (lastOp.op = "fix" /\ lastOp.pre.state # "running") =>
     (~lastOp.accepted /\ lastOp.distCalls = <<>>)

\* C7: finishRun in running or paused with a non-empty route and a positive
\* active duration hands exactly one Run to saveRun: its id is the current
\* run id, its coordinates the route, its distance the route's total
\* distance and its duration getElapsedTime() at the call.
C7_FinishHandsOneRecord ==
  (lastOp.op = "finish" /\ lastOp.pre.state \in Active
     /\ Len(lastOp.pre.route) > 0 /\ lastOp.pre.elapsed > 0) =>
     /\ Len(lastOp.handed) = 1
     /\ lastOp.handed[1].id = lastOp.pre.currentRunId
     /\ lastOp.handed[1].coordinates = lastOp.pre.route
     /\ lastOp.handed[1].distance = calculateTotalDistance(lastOp.pre.route)
     /\ lastOp.handed[1].duration = lastOp.pre.elapsed

C7_HandedATwoPointRun ==
  /\ lastOp.op = "finish" /\ lastOp.pre.state \in Active /\ Len(lastOp.handed) = 1
  /\ Len(lastOp.handed[1].coordinates) = 2 /\ lastOp.handed[1].distance > 0

\* C8: finishRun in running or paused with an empty route, or with an
\* active duration of 0, hands nothing to saveRun and leaves the stored
\* history as it is, and the state becomes stopped.
C8_EmptyRunIsDiscarded ==
  (lastOp.op = "finish" /\ lastOp.pre.state \in Active
     /\ (Len(lastOp.pre.route) = 0 \/ lastOp.pre.elapsed = 0)) =>
     /\ lastOp.handed = <<>>
     /\ localStorage = lastOp.pre.item
     /\ state = "stopped"

C8_DiscardedWithHistoryStored ==
  /\ lastOp.op = "finish" /\ lastOp.pre.state \in Active /\ lastOp.handed = <<>>
  /\ state = "stopped" /\ Len(getRuns) = 1

\* C9: after finishRun returns from running or paused the session is empty:
\* stopped, no startTime, pauseStart, currentRunId, lastPosition or watchId,
\* pausedTime 0 and getElapsedTime() 0.
C9_SessionEmptyAfterFinish ==
  (lastOp.op = "finish" /\ lastOp.pre.state \in Active /\ ~lastOp.threw) =>
     /\ state = "stopped"
     /\ startTime = NULL /\ pauseStart = NULL
     /\ currentRunId = NONE /\ lastPosition = NONE
     /\ pausedTime = 0 /\ watchId = NULL
     /\ getElapsedTime = 0

C9_FinishedARecordedRunFromPaused ==
  /\ lastOp.op = "finish" /\ lastOp.pre.state = "paused" /\ ~lastOp.threw
  /\ Len(lastOp.handed) = 1 /\ state = "stopped"

\* C10: pauseTracking and finishRun in stopped, and pauseTracking in paused,
\* change nothing: session, route, stored history and watches stay, no
\* clearWatch is issued and onStateChange is not invoked.
C10_GuardedCallsAreNoOps ==
  (\/ lastOp.op \in {"pause", "finish"} /\ lastOp.pre.state = "stopped"
   \/ lastOp.op = "pause" /\ lastOp.pre.state = "paused") =>
     /\ Snapshot = lastOp.pre
     /\ lastOp.stateCalls = <<>>
     /\ lastOp.cleared = 0

C10_SecondPauseLater ==
  /\ lastOp.op = "pause" /\ lastOp.pre.state = "paused" /\ state = "paused"
  /\ pauseStart < now

\* C11: startTracking in stopped (with a position source) moves the state
\* to running, allocates a run id, sets startTime to now and pausedTime to
\* 0, empties the route and begins exactly one watch.
C11_StartFromStopped ==
  (lastOp.op = "start" /\ lastOp.pre.state = "stopped" /\ geolocation) =>
     /\ state = "running"
     /\ currentRunId # NONE /\ currentRunId # lastOp.pre.currentRunId
     /\ \E r \in Rands : currentRunId = generateId(now, r)
     /\ startTime = now
     /\ pausedTime = 0
     /\ route = <<>>
     /\ lastOp.subscribed = 1
     /\ watchId \notin lastOp.pre.watches
     /\ watches = lastOp.pre.watches \cup {watchId}

C11_StartedOverAnOldRoute ==
  /\ lastOp.op = "start" /\ lastOp.pre.state = "stopped" /\ state = "running"
  /\ Len(lastOp.pre.route) > 0 /\ now > 1

\* C12: startTracking without a position source changes nothing, whether it
\* is called in stopped or in paused: session, route, stored history and
\* watches stay, no watch is begun and onStateChange is not invoked.
C12_StartWithoutSourceIsRejected ==
  (lastOp.op = "start" /\ ~geolocation) =>
     /\ Snapshot = lastOp.pre
     /\ lastOp.stateCalls = <<>>
     /\ lastOp.subscribed = 0

C12_RejectedWhilePaused ==
  /\ lastOp.op = "start" /\ ~geolocation /\ state = "paused"
  /\ Len(route) > 0 /\ pauseStart < now

\* C13: a sensor error delivered during a run (permission denied, position
\* unavailable or timeout) changes nothing: state, session, route, stored
\* history and watches stay as they were and no observer is invoked.
C13_SensorErrorChangesNothing ==
  (lastOp.op = "error" /\ lastOp.pre.state \in Active) =>
     /\ Snapshot = lastOp.pre
     /\ lastOp.stateCalls = <<>> /\ lastOp.distCalls = <<>>
     /\ lastOp.cleared = 0 /\ lastOp.subscribed = 0 /\ lastOp.handed = <<>>

C13_ErrorWhileRunningWithARoute ==
  /\ lastOp.op = "error" /\ state = "running" /\ watchId \in watches
  /\ Len(route) > 0

\* C14: within one run getCurrentDistance() never gets smaller: no step
\* that stays inside the run (fix accepted or rejected, pause, resume,
\* repeated start, error, clock) leaves a distance below the one before it.
C14_DistanceNeverRegresses ==
  (lastOp.pre.state \in Active /\ state \in Active) =>
     getCurrentDistance >= calculateTotalDistance(lastOp.pre.route)

C14_DistanceGrewAfterAResume ==
  /\ lastOp.op = "fix" /\ lastOp.accepted /\ state = "running" /\ pausedTime > 0
  /\ getCurrentDistance > calculateTotalDistance(lastOp.pre.route)

\* C15: during a run the route is append-only: across every step that stays
\* inside the run (resume and repeated start included) the earlier route is
\* a prefix of the later one, and an accepted fix is put at the end.
C15_RouteAppendOnly ==
  (lastOp.pre.state \in Active /\ state \in Active) =>
     /\ Len(lastOp.pre.route) <= Len(route)
     /\ SubSeq(route, 1, Len(lastOp.pre.route)) = lastOp.pre.route
     /\ (lastOp.op = "fix" /\ lastOp.accepted) =>
           route = Append(lastOp.pre.route, <<lastOp.fix[1], lastOp.fix[2]>>)

C15_RepeatedStartKeepsTwoPoints ==
  /\ lastOp.op = "start" /\ lastOp.pre.state = "running" /\ state = "running"
  /\ Len(route) = 2 /\ route[1] # route[2] /\ route = lastOp.pre.route

\* C16: a fix whose accuracy is above 30 m is rejected however far it is
\* from the last accepted coordinate, and the rejection changes nothing
\* (route, lastPosition, distance; onDistanceUpdate is not invoked); a fix of
\* accuracy exactly 30 m passes the accuracy check.
C16_InaccurateFixIsRejected ==
  lastOp.op = "fix" =>
     /\ lastOp.fix[3] > 30 =>
           /\ ~lastOp.accepted
           /\ Snapshot = lastOp.pre
           /\ getCurrentDistance = calculateTotalDistance(lastOp.pre.route)
           /\ lastOp.distCalls = <<>>
     /\ (/\ lastOp.fix[3] = 30
         /\ \/ lastOp.pre.route = <<>>
            \/ haversineDistance(lastOp.pre.route[Len(lastOp.pre.route)],
                                 <<lastOp.fix[1], lastOp.fix[2]>>) >= 3 * DM)
          => lastOp.accepted

C16_RejectedThreeMetresAway ==
  /\ lastOp.op = "fix" /\ lastOp.fix[3] = 31 /\ state = "running"
  /\ Len(route) = 1
  /\ haversineDistance(route[1], <<lastOp.fix[1], lastOp.fix[2]>>) = 3 * DM

\* C17: a fix that passes the accuracy check is rejected, changing nothing,
\* when the route has a last coordinate and the fix is less than 3 m from
\* it, and is accepted otherwise: the fix is measured against the last
\* route element whatever samples were rejected since, and a fix exactly
\* 3 m away is accepted.
C17_JitterFilter ==
  (lastOp.op = "fix" /\ lastOp.fix[3] <= 30) =>
     LET coords == lastOp.pre.route
         near == /\ coords # <<>>
                 /\ haversineDistance(coords[Len(coords)],
                                      <<lastOp.fix[1], lastOp.fix[2]>>) < 3 * DM
     IN  /\ near => (~lastOp.accepted /\ Snapshot = lastOp.pre /\ lastOp.distCalls = <<>>)
         /\ ~near => (lastOp.accepted /\ route = Append(coords, <<lastOp.fix[1], lastOp.fix[2]>>))

C17_AcceptedExactlyThreeMetresAway ==
  /\ lastOp.op = "fix" /\ lastOp.accepted /\ lastOp.fix[3] = 30
  /\ Len(route) = 2 /\ haversineDistance(route[1], route[2]) = 3 * DM

\* C18: the first fix of a run that passes the accuracy check is accepted,
\* in every run, a run started after an earlier one was finished included,
\* and also when the fix is within 3 m of the earlier run's last coordinate.
C18_FirstFixIsAccepted ==
  (lastOp.op = "fix" /\ lastOp.pre.firstFix /\ lastOp.fix[3] <= 30) =>
     /\ lastOp.accepted
     /\ route = <<<<lastOp.fix[1], lastOp.fix[2]>>>>

C18_SecondRunBeginsWhereTheFirstEnded ==
  /\ lastOp.op = "fix" /\ lastOp.pre.firstFix /\ lastOp.accepted
  /\ state = "running" /\ Len(getRuns) = 1
  /\ LET coordinates == getRuns[1].coordinates
     IN  coordinates[Len(coordinates)] = <<lastOp.fix[1], lastOp.fix[2]>>

\* C19: a fix accepted while running becomes lastPosition, is appended as
\* the one new last coordinate of the route, and onDistanceUpdate is invoked
\* exactly once, with the total distance of the route that already holds
\* the new coordinate; with no observer registered the fix is applied all
\* the same and no call is made.
C19_AcceptedFixIsApplied ==
  (lastOp.op = "fix" /\ lastOp.accepted /\ lastOp.pre.state = "running") =>
     LET coordinate == <<lastOp.fix[1], lastOp.fix[2]>>
     IN  /\ lastPosition = coordinate
         /\ route = Append(lastOp.pre.route, coordinate)
         /\ onDistanceUpdate # NOCALLBACK =>
               lastOp.distCalls = <<calculateTotalDistance(route)>>
         /\ onDistanceUpdate = NOCALLBACK => lastOp.distCalls = <<>>

C19_AppliedWithNoObserver ==
  /\ lastOp.op = "fix" /\ lastOp.accepted /\ lastOp.pre.state = "running"
  /\ onDistanceUpdate = NOCALLBACK
  /\ Len(route) = 2 /\ lastPosition = route[2] /\ getCurrentDistance > 0

\* C20: on every state transition (stopped to running, paused to running,
\* running to paused, running or paused to stopped) onStateChange is invoked
\* with the new state, which is the state getState() returns during the call.
C20_TransitionNotifiesNewState ==
  state # lastOp.pre.state => lastOp.stateCalls = <<state>>

C20_NotifiedOfTheResume ==
  /\ lastOp.op = "start" /\ lastOp.pre.state = "paused" /\ state = "running"
  /\ lastOp.stateCalls = <<"running">> /\ onStateChange # NOCALLBACK

\* C21: every Run handed to saveRun has at least one coordinate and a
\* duration above 0, and only finishRun hands one over: start, pause, a fix,
\* a sensor error and the clock neither call saveRun nor change the stored
\* history.
C21_RecordsComeFromFinishWithData ==
  /\ lastOp.handed # <<>> =>
        /\ lastOp.op = "finish"
        /\ Len(lastOp.handed) = 1
        /\ Len(lastOp.handed[1].coordinates) > 0
        /\ lastOp.handed[1].duration > 0
  /\ lastOp.op # "finish" => localStorage = lastOp.pre.item
  /\ \A i \in 1..Len(getRuns) :
        Len(getRuns[i].coordinates) > 0 /\ getRuns[i].duration > 0

C21_SmallestRecordStored ==
  /\ lastOp.op = "finish" /\ Len(lastOp.handed) = 1 /\ Len(getRuns) = 1
  /\ Len(getRuns[1].coordinates) = 1 /\ getRuns[1].duration = 1

\* C22: the duration of a Run is active time only: the time the run spent
\* in running, which is the span from start to finish less every paused
\* interval, the pause still open at a finish from paused included.
C22_DurationIsActiveTime ==
  (lastOp.op = "finish" /\ lastOp.handed # <<>>) =>
     LET pre == lastOp.pre
         openPause == IF pre.state = "paused" THEN now - pre.pauseStart ELSE 0
     IN  /\ lastOp.handed[1].duration = pre.activeTime
         /\ lastOp.handed[1].duration = (now - pre.startTime) - pre.pausedTime - openPause

C22_FinishedDuringAPause ==
  /\ lastOp.op = "finish" /\ lastOp.handed # <<>> /\ lastOp.pre.state = "paused"
  /\ now > lastOp.pre.pauseStart
  /\ lastOp.handed[1].duration < now - lastOp.pre.startTime

\* C23: the history is newest first: after a saveRun(r) whose write
\* succeeds, getRuns() is r followed by the runs getRuns() returned before
\* the call, in their order.
C23_SavedRunComesFirst ==
  (lastOp.op = "saveRun" /\ lastOp.setItem = <<"ok">>) =>
     LET before == IF lastOp.pre.item = NONE THEN <<>>
                   ELSE JSONparse(lastOp.pre.item[1])
     IN  /\ ~lastOp.threw
         /\ getRuns = <<lastOp.handed[1]>> \o before

C23_ThirdRunSavedInFront ==
  /\ lastOp.op = "saveRun" /\ lastOp.setItem = <<"ok">> /\ Len(getRuns) = 3
  /\ getRuns[1] = lastOp.handed[1]
  /\ getRuns[1] # getRuns[2] /\ getRuns[2] # getRuns[3] /\ getRuns[1] # getRuns[3]

\* C24: calculateTotalDistance is 0 for fewer than 2 coordinates, and one
\* more coordinate adds exactly the distance from the last coordinate to
\* the new one, so that the result is the sum of the distances of the
\* consecutive pairs.
C24_TotalDistanceIsSumOfLegs ==
  lastOp.op = "distance" =>
     LET before == lastOp.pre.route
         total == lastOp.distCalls[1]
     IN  /\ Len(route) < 2 => total = 0
         /\ Len(route) = 2 => total = haversineDistance(route[1], route[2])
         /\ Len(before) >= 1 =>
               total = calculateTotalDistance(before)
                         + haversineDistance(before[Len(before)], route[Len(route)])

C24_MeasuredTwoSidesOfATriangle ==
  /\ lastOp.op = "distance" /\ Len(route) = 3
  /\ route[1] # route[2] /\ route[2] # route[3] /\ route[1] # route[3]
  /\ lastOp.distCalls[1] > haversineDistance(route[1], route[3])

\* C25: between operations the position source holds exactly one live
\* watch when the state is running and none when it is stopped or paused,
\* and watchId is non-null exactly in running, where it is that one watch;
\* also when the onStateChange observer calls pauseTracking from inside
\* startTracking.
C25_OneWatchExactlyWhileRunning ==
  /\ state = "running" => (watchId # NULL /\ watches = {watchId})
  /\ state # "running" => (watchId = NULL /\ watches = {})

\* C26: driven through handlePlayPause and handleFinish only, startTracking
\* is never called in running (and pauseTracking only in running), so no
\* second watch is ever begun: every start that opens a running interval
\* finds no live watch and begins exactly one.
C26_ButtonsNeverDoubleStart ==
  /\ lastOp.op = "start" => lastOp.pre.state \in {"stopped", "paused"}
  /\ lastOp.op = "pause" => lastOp.pre.state = "running"
  /\ (lastOp.op = "start" /\ geolocation) =>
        /\ state = "running"
        /\ lastOp.pre.watches = {}
        /\ lastOp.subscribed = 1
        /\ watches = {watchId}
  /\ Cardinality(watches) <= 1
  /\ watches # {} => (state = "running" /\ watches = {watchId})

C26_ResumedThroughTheButton ==
  /\ lastOp.op = "start" /\ lastOp.pre.state = "paused" /\ state = "running"
  /\ pausedTime > 0 /\ watches = {watchId} /\ Len(route) > 0

\* C27: with the sensor stalled in running (the clock advances, no fix
\* arrives) the run stays running, getElapsedTime() grows with the clock,
\* getCurrentDistance() keeps its value, and a later finishRun reaches
\* stopped.
C27_StalledRunCanStillFinish ==
  /\ (lastOp.op = "tick" /\ lastOp.pre.state = "running") =>
        /\ state = "running"
        /\ getElapsedTime = lastOp.pre.elapsed + 1
        /\ getCurrentDistance = calculateTotalDistance(lastOp.pre.route)
  /\ (lastOp.op = "finish" /\ lastOp.pre.state = "running") => state = "stopped"

\* C28: in a run every two consecutive route coordinates are at least 3 m
\* apart, so no two adjacent coordinates are equal, whatever fixes, pauses
\* and resumes came before.
C28_RoutePointsThreeMetresApart ==
  state \in Active =>
     \A i \in 1..(Len(route) - 1) :
        /\ haversineDistance(route[i], route[i + 1]) >= 3 * DM
        /\ route[i] # route[i + 1]

C28_SecondPointAfterAResume ==
  /\ state = "running" /\ pausedTime > 0 /\ Len(route) = 2
  /\ lastOp.op = "fix" /\ lastOp.accepted

\* C29: with a clock that never goes backwards getElapsedTime() is never
\* negative and never more than the wall-clock time since startTime; it is 0
\* whenever the state is stopped; and within a run no operation lowers
\* pausedTime.
C29_ElapsedTimeWithinWallClock ==
  /\ getElapsedTime >= 0
  /\ startTime # NULL => getElapsedTime <= now - startTime
  /\ state = "stopped" => getElapsedTime = 0
  /\ (lastOp.pre.state \in Active /\ state \in Active) =>
        pausedTime >= lastOp.pre.pausedTime

C29_RunningAgainAfterAPause ==
  /\ state = "running" /\ lastOp.op = "start" /\ lastOp.pre.state = "paused"
  /\ pausedTime > lastOp.pre.pausedTime
  /\ getElapsedTime > 0 /\ getElapsedTime < now - startTime

\* C30: run-tracker.js and run-tracker.ts are one logical core: a finishRun
\* that returns from a run leaves the same route snapshot (and so the same
\* getCurrentDistance()) in both variants, and the variant-only part of the
\* save condition (currentRunId && startTime) never decides whether a record
\* is saved.
C30_VariantsLeaveTheSameRoute ==
  /\ state \in Active => (currentRunId # NONE /\ Truthy(startTime))
  /\ (lastOp.op = "finish" /\ lastOp.pre.state \in Active /\ ~lastOp.threw) =>
        \A v \in Variants : route = RouteLeftByFinish(v, lastOp.pre.route)

\* C31: while a run is running or paused, lastPosition is null exactly when
\* the route is empty and otherwise is the last coordinate of the route; a
\* start from stopped leaves no lastPosition of an earlier run behind.
C31_LastPositionIsLastRoutePoint ==
  /\ state \in Active =>
        IF Len(route) = 0
        THEN lastPosition = NONE
        ELSE lastPosition = route[Len(route)]
  /\ (lastOp.op = "start" /\ lastOp.pre.state = "stopped" /\ lastOp.subscribed = 1) =>
        lastPosition = NONE

\* C32: the run id is allocated by the start that leaves stopped, no operation
\* inside the run (pause, resume, fix, clock) changes it, finishRun hands it
\* over as the record's id, and the records stored by different runs have
\* pairwise different ids, so an id names one stored record.
C32_RunIdsAreDistinct ==
  /\ (lastOp.op = "start" /\ lastOp.pre.state = "stopped" /\ state = "running") =>
        \E r \in Rands : currentRunId = generateId(now, r)
  /\ (lastOp.pre.state \in Active /\ state \in Active) =>
        currentRunId = lastOp.pre.currentRunId
  /\ (lastOp.op = "finish" /\ lastOp.handed # <<>>) =>
        lastOp.handed[1].id = lastOp.pre.currentRunId
  /\ \A i, j \in 1..Len(getRuns) : i # j => getRuns[i].id # getRuns[j].id

C32_SecondRunStored ==
  /\ lastOp.op = "finish" /\ lastOp.handed # <<>> /\ ~lastOp.threw
  /\ Len(getRuns) = 2
  /\ getRuns[1].id = lastOp.pre.currentRunId
  /\ getRuns[1].id # getRuns[2].id

\* C33: a stored Run Record is immutable with respect to tracking: no start,
\* fix, pause, resume, clock step or finish changes a stored record or the
\* order of the stored records, and the only change tracking makes to the
\* stored list is that a finish whose write succeeds places one new record
\* in front.
C33_FinishOnlyAddsInFront ==
  LET before == IF lastOp.pre.item = NONE THEN <<>>
                ELSE JSONparse(lastOp.pre.item[1])
  IN  /\ lastOp.op # "finish" => localStorage = lastOp.pre.item
      /\ lastOp.op = "finish" =>
            \/ localStorage = lastOp.pre.item
            \/ /\ lastOp.handed # <<>>
               /\ getRuns = <<lastOp.handed[1]>> \o before

\* C33 as amended: as above, except that a finish whose write succeeds only
\* on the retry after a QuotaExceededError leaves the first KEEP_RECENT
\* records of the new list (the new record, then the stored ones in their
\* order) and drops the rest.
C33_FinishAddsInFrontAndMayTrim ==
  LET before == IF lastOp.pre.item = NONE THEN <<>>
                ELSE JSONparse(lastOp.pre.item[1])
      new == <<lastOp.handed[1]>> \o before
  IN  /\ lastOp.op # "finish" => localStorage = lastOp.pre.item
      /\ (lastOp.op = "finish" /\ lastOp.handed = <<>>) =>
            localStorage = lastOp.pre.item
      /\ (lastOp.op = "finish" /\ lastOp.handed # <<>>) =>
            IF lastOp.setItem = <<"ok">>
            THEN getRuns = new
            ELSE IF lastOp.setItem = <<"QuotaExceededError", "ok">>
                 THEN /\ Len(getRuns) = IF Len(new) < KEEP_RECENT THEN Len(new)
                                        ELSE KEEP_RECENT
                      /\ \A i \in 1..Len(getRuns) : getRuns[i] = new[i]
                 ELSE localStorage = lastOp.pre.item

C33_FinishDroppedTheOldestRecord ==
  /\ lastOp.op = "finish" /\ lastOp.handed # <<>>
  /\ lastOp.setItem = <<"QuotaExceededError", "ok">>
  /\ lastOp.pre.item # NONE
  /\ Len(JSONparse(lastOp.pre.item[1])) = KEEP_RECENT
  /\ Len(getRuns) = KEEP_RECENT
  /\ getRuns[1] = lastOp.handed[1]
  /\ getRuns[KEEP_RECENT] = JSONparse(lastOp.pre.item[1])[KEEP_RECENT - 1]

\* C34: when the first setItem of saveRun fails with QuotaExceededError,
\* saveRun writes again, the list cut to its first KEEP_RECENT records (the
\* new record first, the oldest dropped): after a retry that succeeds
\* getRuns() has at most KEEP_RECENT records and begins with the new one.
\* When the write fails for another reason there is no retry and the stored
\* history is as it was.
C34_QuotaRetryTrimsToFifty ==
  lastOp.op = "saveRun" =>
     LET before == IF lastOp.pre.item = NONE THEN <<>>
                   ELSE JSONparse(lastOp.pre.item[1])
         new == <<lastOp.handed[1]>> \o before
     IN  /\ Len(lastOp.setItem) = IF lastOp.setItem[1] = "QuotaExceededError"
                                  THEN 2 ELSE 1
         /\ lastOp.setItem = <<"QuotaExceededError", "ok">> =>
               /\ ~lastOp.threw
               /\ Len(getRuns) <= KEEP_RECENT
               /\ Len(getRuns) = IF Len(new) < KEEP_RECENT THEN Len(new)
                                 ELSE KEEP_RECENT
               /\ getRuns[1] = lastOp.handed[1]
               /\ \A i \in 2..Len(getRuns) : getRuns[i] = before[i - 1]
         /\ lastOp.setItem[1] \notin {"ok", "QuotaExceededError"} =>
               /\ ~lastOp.threw
               /\ localStorage = lastOp.pre.item

C34_RetryDroppedTwoRecords ==
  /\ lastOp.op = "saveRun" /\ lastOp.setItem = <<"QuotaExceededError", "ok">>
  /\ Len(JSONparse(lastOp.pre.item[1])) = KEEP_RECENT + 1
  /\ Len(getRuns) = KEEP_RECENT
  /\ getRuns[1] = lastOp.handed[1]
  /\ getRuns[KEEP_RECENT] = JSONparse(lastOp.pre.item[1])[KEEP_RECENT - 1]

\* C35: deleteRun(id) removes exactly the stored records whose id is id and
\* leaves the other records and their order as they were (nothing changes
\* for an id that is not stored); after saveRun(r), getRunById(r.id) returns
\* r; after deleteRun(r.id), getRunById(r.id) returns undefined.
C35_DeleteAndLookupLaws ==
  LET before == IF lastOp.pre.item = NONE THEN <<>>
                ELSE JSONparse(lastOp.pre.item[1])
      Others(run) == run.id # lastOp.id
  IN  /\ lastOp.op = "deleteRun" =>
            /\ getRuns = SelectSeq(before, Others)
            /\ getRunById(lastOp.id) = undefined
      /\ lastOp.op = "saveRun" =>
            getRunById(lastOp.handed[1].id) = lastOp.handed[1]

\* C35 as amended: the three laws hold of a deleteRun and of a saveRun whose
\* write succeeds (for saveRun the first write or the retry); a deleteRun
\* whose write fails throws, and after it, as after a saveRun with no write
\* that succeeds, the stored history is as it was.
C35_DeleteAndLookupLawsOfAWrite ==
  LET before == IF lastOp.pre.item = NONE THEN <<>>
                ELSE JSONparse(lastOp.pre.item[1])
      Others(run) == run.id # lastOp.id
  IN  /\ lastOp.op = "deleteRun" =>
            IF lastOp.setItem = <<"ok">>
            THEN /\ ~lastOp.threw
                 /\ getRuns = SelectSeq(before, Others)
                 /\ getRunById(lastOp.id) = undefined
                 /\ (\A i \in 1..Len(before) : before[i].id # lastOp.id) =>
                       getRuns = before
            ELSE /\ lastOp.threw
                 /\ localStorage = lastOp.pre.item
      /\ lastOp.op = "saveRun" =>
            IF lastOp.setItem \in {<<"ok">>, <<"QuotaExceededError", "ok">>}
            THEN getRunById(lastOp.handed[1].id) = lastOp.handed[1]
            ELSE localStorage = lastOp.pre.item

C35_DeletedARunSavedTwice ==
  /\ lastOp.op = "deleteRun" /\ lastOp.setItem = <<"ok">>
  /\ lastOp.pre.item # NONE
  /\ Len(JSONparse(lastOp.pre.item[1])) = 3
  /\ Len(getRuns) = 1
  /\ getRuns[1] = JSONparse(lastOp.pre.item[1])[2]
  /\ getRunById(getRuns[1].id) = getRuns[1]
====
